---- MODULE Spec2Model ----
(***************************************************************************)
(* Trueprice.cash (src/src/App.jsx): the market catalog loader with its    *)
(* 10-minute price cache, the valuation metrics fetcher with its 30-minute *)
(* cache, and the on-device AI estimate with its 24-hour cache and its     *)
(* engine singleton.                                                       *)
(*                                                                         *)
(* Conventions.  A JavaScript value that may be null/undefined is a        *)
(* sequence of length 0 or 1 (None, Some(x)).  A string built by           *)
(* concatenation is the tuple of its parts.  Date.now() is the variable    *)
(* now, in milliseconds.  localStorage is the function storage, whose      *)
(* domain is the set of keys that hold an item.                            *)
(***************************************************************************)
EXTENDS Integers, Sequences, FiniteSets, TLC

(* ------------------------------ bounds -------------------------------- *)
MaxLoads == 2
MaxTicks == 1
\* A tick moves the clock by one or two steps.
TickSteps == {1, 2}

None == <<>>
Some(x) == <<x>>
EmptyMap == <<>>
ToSet(s) == {s[i] : i \in 1..Len(s)}
Put(f, k, v) == [x \in (DOMAIN f) \cup {k} |-> IF x = k THEN v ELSE f[x]]
\* A bag of records: the function from each record held to its number of copies.
BagAdd(b, x) == IF x \in DOMAIN b THEN [b EXCEPT ![x] = @ + 1] ELSE Put(b, x, 1)
BagRemove(b, x) ==
  IF b[x] > 1 THEN [b EXCEPT ![x] = @ - 1] ELSE [y \in (DOMAIN b) \ {x} |-> b[y]]
RECURSIVE BagSize(_)
BagSize(b) ==
  IF DOMAIN b = {} THEN 0
  ELSE LET x == CHOOSE y \in DOMAIN b : TRUE
       IN b[x] + BagSize([y \in (DOMAIN b) \ {x} |-> b[y]])
RECURSIVE Flatten(_)
Flatten(ss) == IF ss = <<>> THEN <<>> ELSE Head(ss) \o Flatten(Tail(ss))

VARIABLES
  now,            \* Date.now()
  storage,        \* localStorage
  apiKey,         \* TWELVE_API_KEY is configured
  mounted,        \* MarketBrowser is the mounted view
  market,         \* MarketBrowser's market state
  effectPending,  \* a render with a new market is committed, its effect not yet run
  grouped,        \* useMarketData's grouped state
  loading,        \* useMarketData's loading state
  error,          \* useMarketData's error state
  loads,          \* the async loads started by the effect and not yet finished (a bag)
  ticks,          \* clock advances so far
  evLoad,         \* what the last step of a load did
  view,           \* the mounted MarketStock's state, None on the home view
  calls,          \* getValuationMetricsCached calls awaiting their responses (a bag)
  replaced,       \* per symbol, the still fresh metrics cache entry the last store wrote over
  evCall,         \* what the last step of a metrics call did
  engine,         \* __engine: None, or the engine of the construction that resolved last
  created,        \* CreateMLCEngine calls so far; a construction is known by its number
  startup,        \* the construction App's effect awaits, None once it has settled
  asks,           \* askAI runs that are past setAiBusy(true) and not yet finished (a bag)
  estimated,      \* per AI cache key, the metrics the cached estimate was asked for
  evAI,           \* what the last step of askAI did
  priceCall,      \* a call of fetchTwelvePrices made on its own: where it is, what it did
  metricsCall,    \* a call of fetchValuationMetrics made on its own: None, or what it did
  jsonCall        \* a call of extractJSON made on its own: None, or its text and result

\* 'gpu' in navigator: the browser has WebGPU (without it the Ask AI button is
\* disabled and App's effect constructs no engine).
hasWebGPU == TRUE

\* Each specification follows one service; the state of the others stays as it is.
browseVars == <<mounted, market, effectPending, grouped, loading, error, loads, evLoad>>
metricsVars == <<calls, replaced, evCall>>
aiVars == <<engine, created, startup, asks, estimated, evAI>>
stockVars == <<view, metricsVars, aiVars>>
fetchVars == <<priceCall, metricsCall, jsonCall>>
vars == <<now, storage, apiKey, ticks, browseVars, stockVars, fetchVars>>

(* ------------------------------ cache --------------------------------- *)
\* An item is the text JSON.stringify produced; parses says JSON.parse reads it back.
JSONstringify(v) == [parses |-> TRUE, value |-> v]
cacheRead(k, f) ==
  IF k \in DOMAIN storage /\ storage[k].parses THEN storage[k].value ELSE f
\* localStorage.setItem either stores the item or throws (quota): accepted says which.
cacheWrite(k, v, accepted) == IF accepted THEN Put(storage, k, JSONstringify(v)) ELSE storage
PRICE_CACHE_KEY(mkt) == <<"mkt_price_cache_v1_", mkt>>

(* ------------------------------ values -------------------------------- *)
\* Numbers are held in thousandths: Units(12) is 12, 12500 is 12.5.  A product or a
\* quotient of two such numbers is brought back to thousandths, rounding down.
Units(n) == n * 1000
Mul(a, b) == (a \div 1000) * b + ((a % 1000) * b) \div 1000
Div(a, b) == (a \div b) * 1000 + ((a % b) * 1000) \div b

\* A JSON value read from a response: null or absent, a number, or a string (the
\* tuple of its characters).
Null == [t |-> "null", n |-> 0, s |-> <<>>]
Num(n) == [t |-> "number", n |-> n, s |-> <<>>]
Str(s) == [t |-> "string", n |-> 0, s |-> s]
\* A property that is not there.
Undefined == [t |-> "undefined", n |-> 0, s |-> <<>>]
\* A number that is not finite; JSON.stringify writes it as null.
Infinity == [t |-> "infinity", n |-> 0, s |-> <<>>]
typeofNumber(x) == x.t \in {"number", "infinity"}
isFiniteNumber(x) == x.t = "number"
toJSON(x) == IF x.t = "infinity" THEN Null ELSE x

Digits == <<"0", "1", "2", "3", "4", "5", "6", "7", "8", "9">>
IsDigit(c) == \E i \in 1..10 : Digits[i] = c
DigitVal(c) == (CHOOSE i \in 1..10 : Digits[i] = c) - 1
RECURSIVE TakeDigits(_)
TakeDigits(s) ==
  IF s # <<>> /\ IsDigit(Head(s)) THEN <<Head(s)>> \o TakeDigits(Tail(s)) ELSE <<>>
RECURSIVE IntVal(_)
IntVal(ds) ==
  IF ds = <<>> THEN 0 ELSE IntVal(SubSeq(ds, 1, Len(ds) - 1)) * 10 + DigitVal(ds[Len(ds)])
\* The first three decimals of a fraction's digits, as thousandths.
FracVal(ds) ==
  LET d(i) == IF i <= Len(ds) THEN DigitVal(ds[i]) ELSE 0
  IN d(1) * 100 + d(2) * 10 + d(3)
RECURSIVE stripCommas(_)
stripCommas(s) ==
  IF s = <<>> THEN <<>>
  ELSE IF Head(s) = "," THEN stripCommas(Tail(s))
  ELSE <<Head(s)>> \o stripCommas(Tail(s))
\* parseFloat: the longest leading sign, digits, point, digits; None is NaN.
parseFloat(s) ==
  LET neg == s # <<>> /\ Head(s) = "-"
      body == IF neg THEN Tail(s) ELSE s
      ip == TakeDigits(body)
      rest == SubSeq(body, Len(ip) + 1, Len(body))
      fp == IF rest # <<>> /\ Head(rest) = "." THEN TakeDigits(Tail(rest)) ELSE <<>>
      v == Units(IntVal(ip)) + FracVal(fp)
  IN IF ip = <<>> /\ fp = <<>> THEN None ELSE Some(IF neg THEN 0 - v ELSE v)
asNum(x) ==
  CASE x.t = "null" -> 0
    [] x.t = "number" -> x.n
    [] x.t = "string" -> LET n == parseFloat(stripCommas(x.s))
                         IN IF n # None THEN n[1] ELSE 0
    [] OTHER -> 0

(* ------------------------- markets + prices --------------------------- *)
MARKET == {"SA", "US"}
MARKET_SUFFIX(mkt) == IF mkt = "SA" THEN ":TADAWUL" ELSE ""
\* The static catalog resources: industry -> companies, in file order.
MARKET_JSON(mkt) ==
  IF mkt = "SA"
  THEN << <<"Banks", << [Ticker |-> "1120", Company |-> <<" ", "Al Rajhi">>],
                        [Ticker |-> "1180", Company |-> <<"SNB">>] >> >>,
          <<"Unlisted", << >> >> >>
  ELSE << <<"Technology", << [Ticker |-> "AAPL", Company |-> <<"Apple", " ">>] >> >> >>
Qualified(ticker, suffix) == <<ticker, suffix>>

RECURSIVE chunk(_, _)
\* (a variant of chunk that loses the symbol after each full batch)
chunk_Skip(arr, n) ==
  IF Len(arr) = 0 THEN <<>>
  ELSE IF Len(arr) <= n THEN <<arr>>
  ELSE <<SubSeq(arr, 1, n)>> \o chunk(SubSeq(arr, n + 2, Len(arr)), n)
chunk(arr, n) ==
  IF Len(arr) = 0 THEN <<>>
  ELSE IF Len(arr) <= n THEN <<arr>>
  ELSE <<SubSeq(arr, 1, n)>> \o chunk(SubSeq(arr, n + 1, Len(arr)), n)
BATCH == 80

\* A batch response (lines 100-105).  Its body is an array of entries, an object of
\* symbol -> entry, or any other JSON value; an entry is null or an object whose
\* symbol and price may be missing.  A price is a string, a number, null or absent.
NullEntry == [isNull |-> TRUE, symbol |-> <<>>, price |-> Undefined]
Entry(sym, price) == [isNull |-> FALSE, symbol |-> sym, price |-> price]
\* typeof price === 'string' ? parseFloat(price) : Number(price), None when the
\* number is not finite: Number(null) is 0, Number(undefined) is NaN.
priceNumber(v) ==
  CASE v.t = "string" -> parseFloat(v.s)
    [] v.t = "number" -> Some(v.n)
    [] v.t = "null" -> Some(0)
    [] OTHER -> None
\* result[symbol] = p for each of the first upto entries that has a symbol and a
\* finite price; a later entry of a symbol wins over an earlier one.
readEntries(result, items, upto) ==
  LET good == {i \in 1..upto : /\ ~items[i].isNull /\ items[i].symbol # <<>>
                               /\ priceNumber(items[i].price) # None}
      syms == {items[i].symbol : i \in good}
      last(s) == CHOOSE i \in good :
                   items[i].symbol = s /\ \A j \in good : items[j].symbol = s => j <= i
  IN [s \in (DOMAIN result) \cup syms |->
        IF s \in syms THEN Num(priceNumber(items[last(s)].price)[1]) ELSE result[s]]
\* for (const it of j): it.price of a null entry throws, what was read stays in result.
readArray(result, items) ==
  LET nulls == {i \in 1..Len(items) : items[i].isNull}
      stop == IF nulls = {} THEN Len(items) + 1 ELSE CHOOSE i \in nulls : \A j \in nulls : i <= j
  IN [result |-> readEntries(result, items, stop - 1), threw |-> nulls # {}]
\* for (const [sym, obj] of Object.entries(j)): obj?.price of a null entry is undefined.
readObject(result, items) ==
  [result |-> readEntries(result, items, Len(items)), threw |-> FALSE]
\* try { fetch; json; read } catch {}: o.ok says the fetch resolved and its body is JSON.
readBatch(result, o) ==
  IF ~o.ok THEN [result |-> result, threw |-> TRUE]
  ELSE CASE o.body.form = "array" -> readArray(result, o.body.items)
         [] o.body.form = "object" -> readObject(result, o.body.items)
         [] OTHER -> [result |-> result, threw |-> FALSE]

\* What the request of batch c can come to: a failure, or a body that prices every
\* symbol, the first one only, none (say an error object), every one but the first
\* (whose price is no number), every one with the first at null, or an array whose
\* second entry is null.
Quote == Str(<<"1", "0">>)
priced(c, q) == [i \in 1..Len(c) |-> Entry(c[i], q)]
BatchBodies(c) ==
  {[form |-> "object", items |-> priced(c, Quote)],
   [form |-> "object", items |-> <<Entry(c[1], Quote)>>],
   [form |-> "other", items |-> <<>>],
   [form |-> "object", items |-> [priced(c, Quote) EXCEPT ![1].price = Str(<<"N", "/", "A">>)]],
   [form |-> "array", items |-> [priced(c, Quote) EXCEPT ![1].price = Null]],
   [form |-> "array",
    items |-> <<Entry(c[1], Quote), NullEntry>> \o SubSeq(priced(c, Quote), 2, Len(c))]}
BatchOutcomes(c) ==
  {[ok |-> FALSE, body |-> [form |-> "other", items |-> <<>>]]}
  \cup {[ok |-> TRUE, body |-> b] : b \in BatchBodies(c)}

PRICE_TTL_MIN == 10
priceSymbols(mkt) ==
  LET raw == MARKET_JSON(mkt)
  IN Flatten([i \in 1..Len(raw) |->
        [j \in 1..Len(raw[i][2]) |-> Qualified(raw[i][2][j].Ticker, MARKET_SUFFIX(mkt))]])
\* cached.at of null, or Object.keys(cached.prices) of a young record without prices,
\* throws inside the inner try (lines 126-128).
priceCacheThrows(cached, t) ==
  /\ "shape" \in DOMAIN cached
  /\ (cached.shape = "null" \/ (t - cached.at) < PRICE_TTL_MIN * 60000)
priceCacheFresh_Seconds(cached, t) ==
  (t - cached.at) < PRICE_TTL_MIN * 1000 /\ DOMAIN cached.prices # {}
priceCacheFresh(cached, t) ==
  (t - cached.at) < PRICE_TTL_MIN * 60000 /\ DOMAIN cached.prices # {}
priceSnapshot_Merge(old, t, prices) ==
  [at |-> t, prices |-> [s \in (DOMAIN old.prices) \cup (DOMAIN prices) |->
                          IF s \in DOMAIN prices THEN prices[s] ELSE old.prices[s]]]
priceSnapshot(old, t, prices) == [at |-> t, prices |-> prices]

trim(s) ==
  LET a == IF Len(s) > 0 /\ Head(s) = " " THEN Tail(s) ELSE s
  IN IF Len(a) > 0 /\ a[Len(a)] = " " THEN SubSeq(a, 1, Len(a) - 1) ELSE a
RECURSIVE dropEmpty(_)
\* (a variant that keeps an industry without companies)
dropEmpty_Keep(groups) == groups
dropEmpty(groups) ==
  IF groups = <<>> THEN <<>>
  ELSE IF Len(Head(groups)[2]) > 0 THEN <<Head(groups)>> \o dropEmpty(Tail(groups))
  ELSE dropEmpty(Tail(groups))
\* (a variant that shows 0 for a price that is not known)
mergeCatalog_Zero(mkt, prices) ==
  LET raw == MARKET_JSON(mkt)
      entry(c) == [ticker |-> c.Ticker, companyName |-> trim(c.Company),
                   price |-> IF /\ Qualified(c.Ticker, MARKET_SUFFIX(mkt)) \in DOMAIN prices
                                /\ isFiniteNumber(prices[Qualified(c.Ticker, MARKET_SUFFIX(mkt))])
                             THEN Some(prices[Qualified(c.Ticker, MARKET_SUFFIX(mkt))].n)
                             ELSE Some(0)]
  IN dropEmpty([i \in 1..Len(raw) |->
        <<raw[i][1], [j \in 1..Len(raw[i][2]) |-> entry(raw[i][2][j])]>>])
mergeCatalog(mkt, prices) ==
  LET raw == MARKET_JSON(mkt)
      entry(c) == [ticker |-> c.Ticker, companyName |-> trim(c.Company),
                   price |-> IF /\ Qualified(c.Ticker, MARKET_SUFFIX(mkt)) \in DOMAIN prices
                                /\ isFiniteNumber(prices[Qualified(c.Ticker, MARKET_SUFFIX(mkt))])
                             THEN Some(prices[Qualified(c.Ticker, MARKET_SUFFIX(mkt))].n)
                             ELSE None]
  IN dropEmpty([i \in 1..Len(raw) |->
        <<raw[i][1], [j \in 1..Len(raw[i][2]) |-> entry(raw[i][2][j])]>>])

(* --------------------------- useMarketData ---------------------------- *)
NoLoadEvent ==
  [op |-> "none", market |-> "SA", stop |-> FALSE, found |-> None,
   called |-> FALSE, arg |-> <<>>, prices |-> EmptyMap, accepted |-> FALSE,
   threw |-> FALSE]
newLoad(mkt) == [market |-> mkt, stop |-> FALSE, pc |-> "catalog", todo |-> <<>>, result |-> EmptyMap]
\* The cleanup of the effect: stop = true in the closure of the load it started.
RECURSIVE stopAll(_)
stopAll(ls) ==
  IF DOMAIN ls = {} THEN EmptyMap
  ELSE LET l == CHOOSE y \in DOMAIN ls : TRUE
           rest == stopAll([y \in (DOMAIN ls) \ {l} |-> ls[y]])
           s == [l EXCEPT !.stop = TRUE]
       IN IF s \in DOMAIN rest THEN [rest EXCEPT ![s] = @ + ls[l]] ELSE Put(rest, s, ls[l])
showCatalog_NoStop(l, out) ==
  grouped' = out /\ loading' = FALSE /\ UNCHANGED error
\* if (!stop) setGrouped(out); finally { if (!stop) setLoading(false) }
showCatalog(l, out) ==
  IF l.stop THEN UNCHANGED <<grouped, loading, error>>
  ELSE grouped' = out /\ loading' = FALSE /\ UNCHANGED error
\* catch (e) { if (!stop) setError(...) } finally { if (!stop) setLoading(false) }
\* (a variant that also empties the catalog)
showError_Clear(l, msg) ==
  IF l.stop THEN UNCHANGED <<grouped, loading, error>>
  ELSE error' = msg /\ loading' = FALSE /\ grouped' = <<>>
showError(l, msg) ==
  IF l.stop THEN UNCHANGED <<grouped, loading, error>>
  ELSE error' = msg /\ loading' = FALSE /\ UNCHANGED grouped

\* The effect of [market]: the previous effect's cleanup sets its stop flag, then the
\* new load starts and runs to its first await.
RunEffect ==
  /\ mounted /\ effectPending
  /\ loads' = BagAdd(stopAll(loads), newLoad(market))
  /\ loading' = TRUE /\ error' = ""
  /\ effectPending' = FALSE
  /\ evLoad' = NoLoadEvent
  /\ UNCHANGED <<fetchVars, stockVars, now, storage, apiKey, mounted, market, grouped, ticks>>

\* MarketToggle's onChange: setMarket(m); the render commits before its effect runs.
SetMarket(m) ==
  /\ mounted /\ ~effectPending /\ m # market /\ BagSize(loads) < MaxLoads
  /\ market' = m /\ effectPending' = TRUE
  /\ evLoad' = NoLoadEvent
  /\ UNCHANGED <<fetchVars, stockVars, now, storage, apiKey, mounted, grouped, loading, error, loads, ticks>>

\* Opening a stock unmounts MarketBrowser: the cleanup sets stop, the hook's state goes.
Unmount ==
  /\ mounted /\ ~effectPending
  /\ mounted' = FALSE /\ loads' = stopAll(loads)
  /\ grouped' = <<>> /\ loading' = TRUE /\ error' = ""
  /\ evLoad' = NoLoadEvent
  /\ UNCHANGED <<fetchVars, stockVars, now, storage, apiKey, market, effectPending, ticks>>

\* Back: MarketBrowser mounts again with fresh hook state and the market kept in 'mkt'.
Mount ==
  /\ ~mounted /\ BagSize(loads) < MaxLoads
  /\ mounted' = TRUE /\ effectPending' = TRUE
  /\ evLoad' = NoLoadEvent
  /\ UNCHANGED <<fetchVars, stockVars, now, storage, apiKey, market, grouped, loading, error, loads, ticks>>

\* The catalog request fails: fetch rejects, !res.ok, or res.json() throws.
CatalogFail(l, msg) ==
  /\ ~effectPending /\ l \in DOMAIN loads /\ l.pc = "catalog"
  /\ showError(l, msg)
  /\ loads' = BagRemove(loads, l)
  /\ evLoad' = [NoLoadEvent EXCEPT !.op = "catalogFail", !.market = l.market, !.stop = l.stop]
  /\ UNCHANGED <<fetchVars, stockVars, now, storage, apiKey, mounted, market, effectPending, ticks>>

\* The catalog arrives (lines 122-130): read the price cache, then either use it, or
\* (when reading it threw) go on without prices, or call fetchTwelvePrices, which returns {} at once without a credential (line 95).
CatalogOk(l, accepted) ==
  /\ ~effectPending /\ l \in DOMAIN loads /\ l.pc = "catalog"
  /\ LET key == PRICE_CACHE_KEY(l.market)
         cached == cacheRead(key, [at |-> 0, prices |-> EmptyMap])
         symbols == priceSymbols(l.market)
         ev == [NoLoadEvent EXCEPT !.market = l.market, !.stop = l.stop,
                  !.found = IF key \in DOMAIN storage /\ storage[key].parses
                            THEN Some(cached) ELSE None]
     IN IF priceCacheThrows(cached, now)
        THEN \* catch { prices = {} }
             /\ showCatalog(l, mergeCatalog(l.market, EmptyMap))
             /\ loads' = BagRemove(loads, l)
             /\ evLoad' = [ev EXCEPT !.op = "cacheThrew", !.threw = TRUE]
             /\ accepted
             /\ UNCHANGED storage
        ELSE IF priceCacheFresh(cached, now)
        THEN /\ showCatalog(l, mergeCatalog(l.market, cached.prices))
             /\ loads' = BagRemove(loads, l)
             /\ evLoad' = [ev EXCEPT !.op = "cached", !.prices = cached.prices]
             /\ accepted
             /\ UNCHANGED storage
        ELSE IF Len(symbols) = 0 \/ ~apiKey
        THEN \* prices = {}; a throw of the write is caught and leaves prices = {}
             /\ storage' = cacheWrite(key, priceSnapshot(cached, now, EmptyMap), accepted)
             /\ showCatalog(l, mergeCatalog(l.market, EmptyMap))
             /\ loads' = BagRemove(loads, l)
             /\ evLoad' = [ev EXCEPT !.op = "skipped", !.called = TRUE, !.arg = symbols,
                                     !.accepted = accepted]
        ELSE /\ loads' = BagAdd(BagRemove(loads, l),
                                [l EXCEPT !.pc = "prices", !.todo = chunk(symbols, BATCH)])
             /\ evLoad' = [ev EXCEPT !.op = "fetching", !.called = TRUE, !.arg = symbols]
             /\ accepted
             /\ UNCHANGED <<storage, grouped, loading, error>>
  /\ UNCHANGED <<fetchVars, stockVars, now, apiKey, mounted, market, effectPending, ticks>>

\* One batch request of fetchTwelvePrices settles; after the last one the load writes
\* the snapshot (a throw of the write is caught: prices = {}) and merges.
PriceRespond(l, o, accepted) ==
  /\ ~effectPending /\ l \in DOMAIN loads /\ l.pc = "prices"
  /\ LET key == PRICE_CACHE_KEY(l.market)
         old == cacheRead(key, [at |-> 0, prices |-> EmptyMap])
         result == readBatch(l.result, o).result
         ev == [NoLoadEvent EXCEPT !.market = l.market, !.stop = l.stop,
                                   !.threw = readBatch(l.result, o).threw]
     IN IF Len(l.todo) > 1
        THEN /\ loads' = BagAdd(BagRemove(loads, l),
                                [l EXCEPT !.todo = Tail(l.todo), !.result = result])
             /\ evLoad' = [ev EXCEPT !.op = "batch"]
             /\ accepted
             /\ UNCHANGED <<storage, grouped, loading, error>>
        ELSE /\ storage' = cacheWrite(key, priceSnapshot(old, now, result), accepted)
             /\ showCatalog(l, mergeCatalog(l.market, IF accepted THEN result ELSE EmptyMap))
             /\ loads' = BagRemove(loads, l)
             /\ evLoad' = [ev EXCEPT !.op = "fetched", !.called = TRUE,
                                     !.arg = Flatten(l.todo), !.prices = result,
                                     !.accepted = accepted,
                                     !.found = IF key \in DOMAIN storage /\ storage[key].parses
                                               THEN Some(old) ELSE None]
  /\ UNCHANGED <<fetchVars, stockVars, now, apiKey, mounted, market, effectPending, ticks>>

\* Time passes: d steps of five minutes.
TICK_MS == 5 * 60000
Tick(d) ==
  /\ ticks < MaxTicks /\ ~effectPending
  /\ now' = now + d * TICK_MS /\ ticks' = ticks + 1
  /\ evLoad' = NoLoadEvent
  /\ UNCHANGED <<fetchVars, stockVars, storage, apiKey, mounted, market, effectPending, grouped, loading,
                 error, loads>>

(* --------------------------- valuation metrics ------------------------ *)
MARKET_CCY(mkt) == IF mkt = "SA" THEN "SAR" ELSE "USD"
METRICS_CACHE_KEY == <<"metrics_cache_v1">>
METRICS_REQUESTS == <<"price", "statistics", "balance_sheet", "income_statement">>

\* Response bodies.  statistics and isArray say whether statsJson.statistics is there
\* and whether balance_sheet / income_statement is an array; a field that is absent
\* is Null.
PriceBodies ==
  {[price |-> Str(<<"1", "2", ".", "5">>)]}
StatsBodies ==
  {[statistics |-> TRUE, enterprise_value |-> Num(Units(1000)),
    shares_outstanding |-> Num(Units(100)), forward_pe |-> Num(Units(15)),
    price_to_sales_ttm |-> Num(Units(3)), book_value_per_share_mrq |-> Num(Units(20)),
    gross_margin |-> Num(400), profit_margin |-> Num(100), operating_margin |-> Num(200)],
   [statistics |-> TRUE, enterprise_value |-> Str(<<"9", ",", "1", "0", "1">>),
    shares_outstanding |-> Str(<<"1", ",", "0", "0", "0">>), forward_pe |-> Num(Units(15)),
    price_to_sales_ttm |-> Str(<<"3", ".", "0", "x">>),
    book_value_per_share_mrq |-> Str(<<"N", "/", "A">>),
    gross_margin |-> Null, profit_margin |-> Str(<<"-", ".", "0", "5">>),
    operating_margin |-> Num(200)],
   [statistics |-> FALSE, enterprise_value |-> Null, shares_outstanding |-> Null,
    forward_pe |-> Null, price_to_sales_ttm |-> Null, book_value_per_share_mrq |-> Null,
    gross_margin |-> Null, profit_margin |-> Null, operating_margin |-> Null]}
BalanceBodies ==
  {[isArray |-> TRUE, cash |-> Num(Units(100)), long_term_debt |-> Num(Units(200))]}
IncomeBodies ==
  {[isArray |-> TRUE, net_income |-> Num(Units(500)), sales |-> Str(<<"4", "0", "0">>)]}
EmptyBodies ==
  [price |-> [price |-> Null],
   stats |-> CHOOSE b \in StatsBodies : ~b.statistics,
   bs |-> [isArray |-> FALSE, cash |-> Null, long_term_debt |-> Null],
   is |-> [isArray |-> FALSE, net_income |-> Null, sales |-> Null]]

\* What the four requests come to: per request it rejects, its body is not JSON, or
\* its body is JSON (an HTTP error status with a JSON body is read like any body).
AllJson == [i \in 1..4 |-> "json"]
FailKinds ==
  {[i \in 1..4 |-> IF i = j THEN k ELSE "json"] : j \in 1..4, k \in {"reject", "badjson"}}
  \cup {[i \in 1..4 |-> k] : k \in {"reject", "badjson"}}
Responses ==
  {[kinds |-> AllJson, price |-> p, stats |-> s, bs |-> b, is |-> i] :
     p \in PriceBodies, s \in StatsBodies, b \in BalanceBodies, i \in IncomeBodies}
  \cup {[kinds |-> k, price |-> EmptyBodies.price, stats |-> EmptyBodies.stats,
         bs |-> EmptyBodies.bs, is |-> EmptyBodies.is] : k \in FailKinds}

\* (a variant that leaves the currency out)
zeroMetrics_NoCurrency(currency) ==
  [price |-> 0, fairEV |-> 0, fairPE |-> 0, fairPS |-> 0, weighted |-> 0, bookValue |-> 0,
   grossMargin |-> 0, netMargin |-> 0, opMargin |-> 0, currency |-> ""]
zeroMetrics(currency) ==
  [price |-> 0, fairEV |-> 0, fairPE |-> 0, fairPS |-> 0, weighted |-> 0, bookValue |-> 0,
   grossMargin |-> 0, netMargin |-> 0, opMargin |-> 0, currency |-> currency]

\* weighted is held in quarters of a thousandth, so that the weights 0.5, 0.25 and
\* 0.25 are the whole numbers 2, 1 and 1.
weighted_Equal(fairEV, fairPE, fairPS) == fairEV + fairPE + fairPS
weightedOf(fairEV, fairPE, fairPS) == fairEV * 2 + fairPE * 1 + fairPS * 1

\* (a variant that falls back to the totals when there are no shares)
deriveMetrics_Totals(priceJson, statsJson, bsJson, isJson, currency) ==
  LET stat(x) == IF statsJson.statistics THEN x ELSE Null
      bs0(x) == IF bsJson.isArray THEN x ELSE Null
      is0(x) == IF isJson.isArray THEN x ELSE Null
      price == asNum(priceJson.price)
      enterpriseValue == asNum(stat(statsJson.enterprise_value))
      sharesOutstanding == asNum(stat(statsJson.shares_outstanding))
      cash == asNum(bs0(bsJson.cash))
      longTermDebt == asNum(bs0(bsJson.long_term_debt))
      forwardPE == asNum(stat(statsJson.forward_pe))
      netIncome == asNum(is0(isJson.net_income))
      priceToSales == asNum(stat(statsJson.price_to_sales_ttm))
      sales == asNum(is0(isJson.sales))
      some == sharesOutstanding > 0
      fairEV == IF some THEN Div(enterpriseValue - longTermDebt + cash, sharesOutstanding)
                ELSE enterpriseValue - longTermDebt + cash
      fairPE == IF some THEN Div(Mul(forwardPE, netIncome), sharesOutstanding)
                ELSE Mul(forwardPE, netIncome)
      fairPS == IF some THEN Div(Mul(priceToSales, sales), sharesOutstanding)
                ELSE Mul(priceToSales, sales)
  IN [price |-> price, fairEV |-> fairEV, fairPE |-> fairPE, fairPS |-> fairPS,
      weighted |-> weightedOf(fairEV, fairPE, fairPS),
      bookValue |-> asNum(stat(statsJson.book_value_per_share_mrq)),
      grossMargin |-> asNum(stat(statsJson.gross_margin)) * 100,
      netMargin |-> asNum(stat(statsJson.profit_margin)) * 100,
      opMargin |-> asNum(stat(statsJson.operating_margin)) * 100,
      currency |-> currency]

\* Lines 165-189: the fields, the three fair values and the weighted one.
deriveMetrics(priceJson, statsJson, bsJson, isJson, currency) ==
  LET stat(x) == IF statsJson.statistics THEN x ELSE Null
      bs0(x) == IF bsJson.isArray THEN x ELSE Null
      is0(x) == IF isJson.isArray THEN x ELSE Null
      price == asNum(priceJson.price)
      enterpriseValue == asNum(stat(statsJson.enterprise_value))
      sharesOutstanding == asNum(stat(statsJson.shares_outstanding))
      cash == asNum(bs0(bsJson.cash))
      longTermDebt == asNum(bs0(bsJson.long_term_debt))
      forwardPE == asNum(stat(statsJson.forward_pe))
      netIncome == asNum(is0(isJson.net_income))
      priceToSales == asNum(stat(statsJson.price_to_sales_ttm))
      sales == asNum(is0(isJson.sales))
      some == sharesOutstanding > 0
      fairEV == IF some THEN Div(enterpriseValue - longTermDebt + cash, sharesOutstanding)
                ELSE 0
      fairPE == IF some THEN Div(Mul(forwardPE, netIncome), sharesOutstanding) ELSE 0
      fairPS == IF some THEN Div(Mul(priceToSales, sales), sharesOutstanding) ELSE 0
  IN [price |-> price, fairEV |-> fairEV, fairPE |-> fairPE, fairPS |-> fairPS,
      weighted |-> weightedOf(fairEV, fairPE, fairPS),
      bookValue |-> asNum(stat(statsJson.book_value_per_share_mrq)),
      grossMargin |-> asNum(stat(statsJson.gross_margin)) * 100,
      netMargin |-> asNum(stat(statsJson.profit_margin)) * 100,
      opMargin |-> asNum(stat(statsJson.operating_margin)) * 100,
      currency |-> currency]

\* fetchValuationMetrics returns a value or throws.
Returned(data) == [ok |-> TRUE, data |-> Some(data), message |-> ""]
Thrown(msg) == [ok |-> FALSE, data |-> None, message |-> msg]
\* (a variant that reads a failed request as an empty body)
fetchValuationMetrics_Partial(key, r, currency) ==
  LET body(i, b) == IF r.kinds[i] = "json" THEN b ELSE EmptyBodies
  IN IF ~key THEN Returned(zeroMetrics(currency))
     ELSE Returned(deriveMetrics(body(1, r).price, body(2, r).stats, body(3, r).bs,
                                 body(4, r).is, currency))
fetchValuationMetrics(key, r, currency) ==
  IF ~key THEN Returned(zeroMetrics(currency))
  ELSE IF \E i \in 1..4 : r.kinds[i] = "reject" THEN Thrown("Failed to fetch")
  ELSE IF \E i \in 1..4 : r.kinds[i] = "badjson" THEN Thrown("Unexpected token")
  ELSE Returned(deriveMetrics(r.price, r.stats, r.bs, r.is, currency))

metricsCacheGet == cacheRead(METRICS_CACHE_KEY, EmptyMap)
\* (a variant that writes the new entry alone)
metricsCachePut_Alone(k, data, accepted) ==
  cacheWrite(METRICS_CACHE_KEY, Put(EmptyMap, k, [at |-> now, data |-> data]), accepted)
metricsCachePut(k, data, accepted) ==
  cacheWrite(METRICS_CACHE_KEY, Put(metricsCacheGet, k, [at |-> now, data |-> data]), accepted)
METRICS_TTL_MS == 30 * 60 * 1000
\* (a variant that still serves an entry aged exactly 30 minutes)
metricsFresh_Inclusive(hit, t) == hit # None /\ (t - hit[1].at) <= METRICS_TTL_MS
metricsFresh(hit, t) == hit # None /\ (t - hit[1].at) < METRICS_TTL_MS

\* The responses the detail view's metrics come from when askAI is followed: three
\* statistics bodies whose enterprise values give fairEV 9.000, 9.001 and 9.011.
AIStatsBodies ==
  LET s == CHOOSE b \in StatsBodies : b.enterprise_value.t = "string"
  IN {[s EXCEPT !.enterprise_value = Str(ev)] :
        ev \in {<<"9", ",", "1", "0", "0">>, <<"9", ",", "1", "0", "1">>,
                <<"9", ",", "1", "1", "1">>}}
AIResponses ==
  {[kinds |-> AllJson, price |-> p, stats |-> s, bs |-> b, is |-> i] :
     p \in PriceBodies, s \in AIStatsBodies, b \in BalanceBodies, i \in IncomeBodies}

\* fetchValuationMetrics of each credential, response and currency, computed once.
fetchedOf ==
  [x \in BOOLEAN \X (Responses \cup AIResponses) \X {MARKET_CCY(m) : m \in MARKET} |->
     fetchValuationMetrics(x[1], x[2], x[3])]

(* ------------------------------ MarketStock --------------------------- *)
MaxCalls == 2
StockChoices == {[ticker |-> "1120", market |-> "SA"], [ticker |-> "AAPL", market |-> "US"]}
Symbols == {Qualified(c.ticker, MARKET_SUFFIX(c.market)) : c \in StockChoices}
QUOTA_ERROR == "QuotaExceededError"

NoAIEvent ==
  [op |-> "none", key |-> <<>>, found |-> None, constructed |-> FALSE, invoked |-> FALSE,
   live |-> FALSE]
NoCallEvent ==
  [op |-> "none", sym |-> <<"", "">>, live |-> FALSE, found |-> None, data |-> None,
   requests |-> 0, kinds |-> <<>>, stored |-> FALSE]
newView(sym, currency) ==
  [sym |-> sym, currency |-> currency, m |-> None, loading |-> TRUE, err |-> "",
   aiBusy |-> FALSE, aiFV |-> None, aiRationale |-> <<>>, aiCached |-> FALSE,
   aiError |-> ""]
newCall(sym, currency) == [sym |-> sym, currency |-> currency, live |-> TRUE]
\* Leaving the detail view unmounts it: what its calls set afterwards is dropped.
RECURSIVE unmountAll(_)
unmountAll(cs) ==
  IF DOMAIN cs = {} THEN EmptyMap
  ELSE LET c == CHOOSE x \in DOMAIN cs : TRUE
           rest == unmountAll([x \in DOMAIN cs \ {c} |-> cs[x]])
           d == [c EXCEPT !.live = FALSE]
       IN IF d \in DOMAIN rest THEN [rest EXCEPT ![d] = @ + cs[c]] ELSE Put(rest, d, cs[c])
\* The effect's try / catch / finally around the call (lines 423-430).
showMetrics(c, data) ==
  IF c.live THEN view' = Some([view[1] EXCEPT !.m = Some(data), !.loading = FALSE])
  ELSE UNCHANGED view
showFailure(c, msg) ==
  IF c.live THEN view' = Some([view[1] EXCEPT !.err = msg, !.loading = FALSE])
  ELSE UNCHANGED view
\* replaced keeps the entry a store wrote over when that entry was still fresh.
freshOf(hit) == IF hit # None /\ now - hit[1].at < METRICS_TTL_MS THEN hit ELSE None
entryOf(sym) == IF sym \in DOMAIN metricsCacheGet THEN Some(metricsCacheGet[sym]) ELSE None

\* Open on a catalog row: MarketStock mounts and its effect calls
\* getValuationMetricsCached, which runs to its first await: a fresh entry is
\* returned, without a credential the all-zero value is stored and returned,
\* otherwise the four requests are sent.
OpenStock(ticker, mkt, accepted) ==
  /\ view = None
  /\ LET sym == Qualified(ticker, MARKET_SUFFIX(mkt))
         currency == MARKET_CCY(mkt)
         hit == entryOf(sym)
         v0 == newView(sym, currency)
         ev == [NoCallEvent EXCEPT !.sym = sym, !.live = TRUE, !.found = hit]
         data == fetchValuationMetrics(apiKey, <<>>, currency).data[1]
     IN IF metricsFresh(hit, now) THEN
             /\ accepted
             /\ view' = Some([v0 EXCEPT !.m = Some(hit[1].data), !.loading = FALSE])
             /\ evCall' = [ev EXCEPT !.op = "hit", !.data = Some(hit[1].data)]
             /\ UNCHANGED <<storage, calls, replaced>>
        ELSE IF ~apiKey THEN
             /\ storage' = metricsCachePut(sym, data, accepted)
             /\ replaced' = IF accepted THEN [replaced EXCEPT ![sym] = freshOf(hit)] ELSE replaced
             /\ view' = IF accepted
                        THEN Some([v0 EXCEPT !.m = Some(data), !.loading = FALSE])
                        ELSE Some([v0 EXCEPT !.err = QUOTA_ERROR, !.loading = FALSE])
             /\ evCall' = [ev EXCEPT !.op = "degraded", !.stored = accepted,
                                     !.data = IF accepted THEN Some(data) ELSE None]
             /\ UNCHANGED calls
        ELSE /\ accepted /\ BagSize(calls) < MaxCalls
             /\ view' = Some(v0)
             /\ calls' = BagAdd(calls, newCall(sym, currency))
             /\ evCall' = [ev EXCEPT !.op = "started", !.requests = Len(METRICS_REQUESTS)]
             /\ UNCHANGED <<storage, replaced>>
  /\ UNCHANGED <<now, apiKey, ticks, browseVars, fetchVars, aiVars>>

\* Back: the home view replaces MarketStock.
BackHome ==
  /\ view # None
  /\ view' = None /\ calls' = unmountAll(calls) /\ asks' = unmountAll(asks)
  /\ evCall' = NoCallEvent /\ evAI' = NoAIEvent
  /\ UNCHANGED <<now, storage, apiKey, ticks, browseVars, fetchVars, replaced>>
  /\ UNCHANGED <<engine, created, startup, estimated>>

\* Line 195: metricsCachePut comes after the await of fetchValuationMetrics, so a throw
\* of the fetch leaves the store out.
\* (a variant that stores the all-zero value when the fetch failed)
storeFetched_Placeholder(c, res, accepted) ==
  IF res.ok THEN metricsCachePut(c.sym, res.data[1], accepted)
  ELSE metricsCachePut(c.sym, zeroMetrics(c.currency), accepted)
storeFetched(c, res, accepted) ==
  IF res.ok THEN metricsCachePut(c.sym, res.data[1], accepted) ELSE storage

\* The four requests of a call have settled (lines 157-196, 423-430): the derivation,
\* the store, and what the effect shows.
MetricsSettle(c, r, accepted) ==
  /\ c \in DOMAIN calls
  /\ calls' = BagRemove(calls, c)
  /\ LET res == fetchedOf[<<apiKey, r, c.currency>>]
         ev == [NoCallEvent EXCEPT !.sym = c.sym, !.live = c.live, !.kinds = r.kinds]
     IN IF ~res.ok THEN
             /\ accepted
             /\ showFailure(c, res.message)
             /\ evCall' = [ev EXCEPT !.op = "failed", !.found = entryOf(c.sym)]
             /\ storage' = storeFetched(c, res, TRUE)
             /\ UNCHANGED replaced
        ELSE IF ~accepted THEN
             /\ showFailure(c, QUOTA_ERROR)
             /\ storage' = storeFetched(c, res, FALSE)
             /\ evCall' = [ev EXCEPT !.op = "storeFailed"]
             /\ UNCHANGED replaced
        ELSE /\ showMetrics(c, res.data[1])
             /\ storage' = storeFetched(c, res, TRUE)
             /\ replaced' = [replaced EXCEPT ![c.sym] = freshOf(entryOf(c.sym))]
             /\ evCall' = [ev EXCEPT !.op = "fetched", !.data = res.data, !.stored = TRUE]
  /\ UNCHANGED <<now, apiKey, ticks, browseVars, fetchVars, aiVars>>

METRICS_TICK_MS == 15 * 60000
TickMetrics(d) ==
  /\ ticks < MaxTicks
  /\ now' = now + d * METRICS_TICK_MS /\ ticks' = ticks + 1
  /\ evCall' = NoCallEvent
  /\ UNCHANGED <<storage, apiKey, browseVars, fetchVars, view, calls, replaced, aiVars>>

(* ------------------------------ on-device AI -------------------------- *)
MaxAsks == 2
MaxEngines == 2
MODEL_ID == "Phi-3-mini-4k-instruct-q4f16_1-MLC"
AI_TTL_MS == 24 * 60 * 60 * 1000
AI_ERROR == "Something went wrong. Try again."

\* round2 of a number in thousandths, in hundredths (toFixed(2), half away from zero).
\* (a variant that rounds to one decimal)
round2_OneDecimal(n) ==
  IF n >= 0 THEN ((n + 50) \div 100) * 10 ELSE 0 - (((0 - n) + 50) \div 100) * 10
round2(n) == IF n >= 0 THEN (n + 5) \div 10 ELSE 0 - (((0 - n) + 5) \div 10)
aiInputsSig(m) ==
  <<round2(m.fairEV), round2(m.fairPE), round2(m.fairPS), round2(m.bookValue),
    round2(m.price)>>
AI_CACHE_KEY(symbolWithSuffix, sig) == <<"ai_fv_cache_v1_", MODEL_ID, symbolWithSuffix, sig>>
\* cacheRead(key, null)
cacheReadOrNull(k) ==
  IF k \in DOMAIN storage /\ storage[k].parses THEN Some(storage[k].value) ELSE None

\* (a variant that still serves an estimate aged exactly 24 hours)
aiFresh_Inclusive(cached, t) ==
  cached # None /\ t - cached[1].at <= AI_TTL_MS /\ isFiniteNumber(cached[1].fv)
aiFresh(cached, t) ==
  cached # None /\ t - cached[1].at < AI_TTL_MS /\ isFiniteNumber(cached[1].fv)

\* The model's reply is a sequence of tokens: "FENCE" (three backquotes), "json",
\* "NL" (a newline), "{", "}", ",", "QUOTE" (a double quote), a member of an object
\* ("fv:quoted" is an fv whose value is a string), a key with its colon, a JSON
\* scalar, or prose.
MemberTokens == {"fv:26.25", "fv:1e999", "fv:quoted", "rationale:ok"}
KeyTokens == {"meta:", "rationale:"}
ScalarTokens == {"null", "42"}
MemberKey(tok) == IF tok \in {"rationale:ok", "rationale:"} THEN "rationale"
                  ELSE IF tok = "meta:" THEN "meta" ELSE "fv"
MemberVal(tok) ==
  CASE tok = "fv:26.25" -> Num(26250)
    [] tok = "fv:1e999" -> Infinity
    [] tok = "fv:quoted" -> Str(<<"2", "6", ".", "2", "5">>)
    [] tok = "rationale:ok" -> Str(<<"o", "k">>)
\* The lexical step of JSON.parse: a string runs from a quote to the next one and
\* may hold anything but a newline; white space between tokens is skipped.  None
\* when a string is not closed or holds a newline.
lexJSON(raw) ==
  LET quotes == {k \in 1..Len(raw) : raw[k] = "QUOTE"}
      before(k) == Cardinality({q \in quotes : q < k})
      closeOf(k) == CHOOSE q \in quotes : q > k /\ \A x \in quotes : x > k => q <= x
      inString(k) == raw[k] # "QUOTE" /\ before(k) % 2 = 1
      drop == [t |-> "DROP", s |-> <<>>]
      marks == [k \in 1..Len(raw) |->
                  IF raw[k] = "QUOTE"
                  THEN IF before(k) % 2 = 0
                       THEN [t |-> "STR", s |-> SubSeq(raw, k + 1, closeOf(k) - 1)]
                       ELSE drop
                  ELSE IF inString(k) \/ raw[k] = "NL" THEN drop
                  ELSE [t |-> raw[k], s |-> <<>>]]
      kept(m) == m.t # "DROP"
  IN IF Cardinality(quotes) % 2 = 1 THEN None
     ELSE IF \E k \in 1..Len(raw) : inString(k) /\ raw[k] = "NL" THEN None
     ELSE Some(SelectSeq(marks, kept))
\* What a lexed token is in the grammar of JSON.parse.
tokenKind(m) ==
  CASE m.t \in {"{", "}", ","} -> m.t
    [] m.t \in MemberTokens -> "member"
    [] m.t \in KeyTokens -> "key"
    [] m.t = "STR" \/ m.t \in ScalarTokens -> "value"
    [] OTHER -> "other"
\* The grammar, token after token: an object is { } or { member , ... , member }, a
\* member is a member token or a key followed by a value, a value is a string, a
\* scalar or an object.
mayFollow(a, b) ==
  CASE a = "{" -> b \in {"}", "member", "key"}
    [] a = "," -> b \in {"member", "key"}
    [] a = "key" -> b \in {"{", "value"}
    [] a \in {"member", "value", "}"} -> b \in {",", "}"}
    [] OTHER -> FALSE
\* JSON.parse: the whole text is one value, an object whose braces match or a lone
\* string or scalar.  What askAI reads of it are the properties fv and rationale of
\* the outer object (a later member of a key wins; an absent property, and any
\* property of a string or scalar, reads as null).
parseTokens(ts) ==
  LET n == Len(ts)
      kind(k) == tokenKind(ts[k])
      opened(k) == Cardinality({x \in 1..k : ts[x].t = "{"})
      closed(k) == Cardinality({x \in 1..k : ts[x].t = "}"})
      isObject ==
        /\ n >= 2 /\ kind(1) = "{" /\ kind(n) = "}"
        /\ \A k \in 1..(n - 1) : mayFollow(kind(k), kind(k + 1)) /\ opened(k) > closed(k)
        /\ opened(n) = closed(n)
      outer(name) ==
        {k \in 1..n : /\ kind(k) \in {"member", "key"} /\ MemberKey(ts[k].t) = name
                      /\ opened(k) - closed(k) = 1}
      valueAt(k) ==
        IF kind(k) = "member" THEN MemberVal(ts[k].t)
        ELSE IF ts[k + 1].t = "STR" THEN Str(ts[k + 1].s)
        ELSE IF ts[k + 1].t = "{" THEN [t |-> "object", n |-> 0, s |-> <<>>]
        ELSE Null
      field(name) ==
        IF outer(name) = {} THEN Null
        ELSE valueAt(CHOOSE k \in outer(name) : \A x \in outer(name) : x <= k)
  IN IF isObject THEN Some([fv |-> field("fv"), rationale |-> field("rationale")])
     ELSE IF n = 1 /\ kind(1) = "value" THEN Some([fv |-> Null, rationale |-> Null])
     ELSE None
JSONparse(raw) ==
  LET lexed == lexJSON(raw)
  IN IF lexed = None THEN None ELSE parseTokens(lexed[1])
lastIndexOf(raw, tok) ==
  LET at == {k \in 1..Len(raw) : raw[k] = tok}
  IN IF at = {} THEN 0 ELSE CHOOSE k \in at : \A x \in at : x <= k
\* The body of the first fenced block: a fence with an optional json, a newline,
\* then up to the next fence.
fenceBody(text) ==
  LET start(i) == IF i + 1 <= Len(text) /\ text[i + 1] = "NL" THEN i + 2
                  ELSE IF i + 2 <= Len(text) /\ text[i + 1] \in {"json", "JSON"}
                          /\ text[i + 2] = "NL" THEN i + 3
                  ELSE 0
      closes(i) == {j \in 1..Len(text) : j >= start(i) /\ text[j] = "FENCE"}
      opens == {i \in 1..Len(text) : text[i] = "FENCE" /\ start(i) > 0 /\ closes(i) # {}}
  IN IF opens = {} THEN None
     ELSE LET i == CHOOSE x \in opens : \A y \in opens : x <= y
              j == CHOOSE x \in closes(i) : \A y \in closes(i) : x <= y
          IN Some(SubSeq(text, start(i), j - 1))
extractJSON(text) ==
  IF text = <<>> THEN None
  ELSE LET fence == fenceBody(text)
           raw == IF fence # None THEN fence[1] ELSE text
           i == lastIndexOf(raw, "{")
           j == lastIndexOf(raw, "}")
           parsed == JSONparse(raw)
       IN IF parsed # None THEN parsed
          ELSE IF i >= 1 /\ j > i THEN JSONparse(SubSeq(raw, i, j))
          ELSE None

ModelContents ==
  {<<"{", "fv:26.25", ",", "rationale:ok", "}">>,
   <<"Sure", "FENCE", "json", "NL", "{", "fv:26.25", ",", "rationale:ok", "}", "NL", "FENCE">>,
   <<"Result", "{", "fv:26.25", ",", "rationale:ok", "}", "done">>,
   <<"{", "fv:1e999", "}">>,
   <<"{", "fv:quoted", "}">>,
   <<>>}
ModelOutcomes ==
  {[ok |-> FALSE, content |-> <<>>]} \cup {[ok |-> TRUE, content |-> c] : c \in ModelContents}
\* extractJSON of each content the model may reply, computed once.
extractJSONOf == [c \in ModelContents |-> extractJSON(c)]

newAsk(v, pc, eng) == [sym |-> v.sym, m |-> v.m[1], live |-> TRUE, pc |-> pc, eng |-> eng]
keyOf(a) == AI_CACHE_KEY(a.sym, aiInputsSig(a.m))
\* catch / finally of askAI, on a view that is still mounted
\* (a variant without the finally: the busy flag stays)
showAIError_StayBusy(a) ==
  IF a.live THEN view' = Some([view[1] EXCEPT !.aiError = AI_ERROR])
  ELSE UNCHANGED view
\* (a variant that clears the busy flag and shows no message)
showAIError_NoMessage(a) ==
  IF a.live THEN view' = Some([view[1] EXCEPT !.aiBusy = FALSE])
  ELSE UNCHANGED view
showAIError(a) ==
  IF a.live THEN view' = Some([view[1] EXCEPT !.aiError = AI_ERROR, !.aiBusy = FALSE])
  ELSE UNCHANGED view

\* MarketStock mounted on a stock whose metrics have arrived (lines 408-432): m is
\* what fetchValuationMetrics derives from the responses r.
ShowStock(ticker, mkt, r) ==
  /\ view = None
  /\ LET sym == Qualified(ticker, MARKET_SUFFIX(mkt))
         currency == MARKET_CCY(mkt)
     IN view' = Some([newView(sym, currency) EXCEPT
                        !.m = fetchedOf[<<apiKey, r, currency>>].data,
                        !.loading = FALSE])
  /\ evAI' = NoAIEvent
  /\ UNCHANGED <<now, storage, apiKey, ticks, browseVars, fetchVars, metricsVars>>
  /\ UNCHANGED <<engine, created, startup, asks, estimated>>

\* A click on Ask AI (lines 454-469), up to the await of getEngine and, when the
\* engine is there, the call of the model.
AskAI ==
  /\ view # None /\ hasWebGPU
  /\ LET v == view[1]
         key == AI_CACHE_KEY(v.sym, aiInputsSig(v.m[1]))
         cached == cacheReadOrNull(key)
         ev == [NoAIEvent EXCEPT !.key = key, !.found = cached]
     IN IF v.m = None \/ v.aiBusy THEN
             /\ evAI' = [NoAIEvent EXCEPT !.op = "ignored"]
             /\ UNCHANGED <<view, asks, created>>
        ELSE IF aiFresh(cached, now) THEN
             /\ view' = Some([v EXCEPT !.aiError = "", !.aiFV = Some(cached[1].fv),
                                       !.aiRationale = cached[1].rationale,
                                       !.aiCached = TRUE])
             /\ evAI' = [ev EXCEPT !.op = "cached"]
             /\ UNCHANGED <<asks, created>>
        ELSE /\ BagSize(asks) < MaxAsks
             /\ view' = Some([v EXCEPT !.aiError = "", !.aiBusy = TRUE, !.aiFV = None,
                                       !.aiRationale = <<>>, !.aiCached = FALSE])
             /\ IF engine # None
                THEN /\ asks' = BagAdd(asks, newAsk(v, "model", engine[1]))
                     /\ evAI' = [ev EXCEPT !.op = "asked", !.invoked = TRUE]
                     /\ UNCHANGED created
                ELSE /\ created < MaxEngines
                     /\ created' = created + 1
                     /\ asks' = BagAdd(asks, newAsk(v, "engine", created + 1))
                     /\ evAI' = [ev EXCEPT !.op = "asked", !.constructed = TRUE]
  /\ UNCHANGED <<now, storage, apiKey, ticks, browseVars, fetchVars, metricsVars>>
  /\ UNCHANGED <<engine, startup, estimated>>

\* The construction an askAI awaits settles (lines 211-212, 469-487): the engine is
\* kept in __engine and the model is called, or askAI's catch shows the error.
EngineSettle(a, ok) ==
  /\ a \in DOMAIN asks /\ a.pc = "engine"
  /\ IF ok THEN /\ engine' = Some(a.eng)
                /\ asks' = BagAdd(BagRemove(asks, a), [a EXCEPT !.pc = "model"])
                /\ evAI' = [NoAIEvent EXCEPT !.op = "engine", !.key = keyOf(a),
                                             !.invoked = TRUE]
                /\ UNCHANGED view
     ELSE /\ asks' = BagRemove(asks, a)
          /\ showAIError(a)
          /\ evAI' = [NoAIEvent EXCEPT !.op = "engineFailed", !.key = keyOf(a)]
          /\ UNCHANGED engine
  /\ UNCHANGED <<now, storage, apiKey, ticks, browseVars, fetchVars, metricsVars>>
  /\ UNCHANGED <<created, startup, estimated>>

\* The construction App's effect started settles (line 658); a failure is swallowed.
StartupSettle(ok) ==
  /\ startup # None
  /\ startup' = None
  /\ engine' = IF ok THEN startup ELSE engine
  /\ evAI' = NoAIEvent
  /\ UNCHANGED <<now, storage, apiKey, ticks, browseVars, fetchVars, metricsVars, view>>
  /\ UNCHANGED <<created, asks, estimated>>

\* The model's reply, or its failure (lines 485-500).
ModelSettle(a, o, accepted) ==
  /\ a \in DOMAIN asks /\ a.pc = "model"
  /\ asks' = BagRemove(asks, a)
  /\ LET j == IF o.ok THEN extractJSONOf[o.content] ELSE None
         fvNum == j[1].fv
         rationale == IF j[1].rationale.t = "string" THEN j[1].rationale.s ELSE <<>>
         ev == [NoAIEvent EXCEPT !.key = keyOf(a), !.live = a.live]
     IN IF j # None /\ typeofNumber(j[1].fv) THEN
             /\ storage' = cacheWrite(keyOf(a),
                                      [at |-> now, fv |-> toJSON(fvNum),
                                       rationale |-> rationale], accepted)
             /\ estimated' = IF accepted THEN Put(estimated, keyOf(a), a.m) ELSE estimated
             /\ view' = IF a.live
                        THEN Some([view[1] EXCEPT
                                     !.aiFV = Some(fvNum), !.aiRationale = rationale,
                                     !.aiError = IF accepted THEN @ ELSE AI_ERROR,
                                     !.aiBusy = FALSE])
                        ELSE view
             /\ evAI' = [ev EXCEPT !.op = IF accepted THEN "answered" ELSE "writeFailed"]
        ELSE /\ accepted
             /\ showAIError(a)
             /\ evAI' = [ev EXCEPT !.op = IF o.ok THEN "unparsable" ELSE "modelFailed"]
             /\ UNCHANGED <<storage, estimated>>
  /\ UNCHANGED <<now, apiKey, ticks, browseVars, fetchVars, metricsVars>>
  /\ UNCHANGED <<engine, created, startup>>

AI_TICK_MS == 12 * 60 * 60 * 1000
TickAI(d) ==
  /\ ticks < MaxTicks
  /\ now' = now + d * AI_TICK_MS /\ ticks' = ticks + 1
  /\ evAI' = NoAIEvent
  /\ UNCHANGED <<storage, apiKey, browseVars, fetchVars, metricsVars, view>>
  /\ UNCHANGED <<engine, created, startup, asks, estimated>>

(* ------------------ the two fetchers, called on their own -------------- *)
MaxSymbols == 161
SymbolCounts == {0, 1, BATCH - 1, BATCH, BATCH + 1, 2 * BATCH, MaxSymbols}
SymbolList(n) == [i \in 1..n |-> Qualified(ToString(i), "")]

\* A call of fetchTwelvePrices: todo are the batches not yet settled (the request of
\* its head is in flight), sent the batches requested so far, threw says of each
\* settled batch whether its try block threw.
idleFetch ==
  [pc |-> "idle", n |-> 0, todo |-> <<>>, result |-> EmptyMap, sent |-> <<>>,
   inflight |-> 0, threw |-> <<>>]
\* Lines 95-100: nothing to do, or the first batch's request.
startFetch(symbols, key) ==
  IF Len(symbols) = 0 \/ ~key
  THEN [idleFetch EXCEPT !.pc = "done", !.n = Len(symbols)]
  ELSE LET cs == chunk(symbols, BATCH)
       IN [idleFetch EXCEPT !.pc = "await", !.n = Len(symbols), !.todo = cs,
                            !.sent = <<Head(cs)>>, !.inflight = 1]
\* Lines 100-107: the request in flight settles, the loop goes on to the next batch.
settleFetch(f, o) ==
  LET r == readBatch(f.result, o)
      rest == Tail(f.todo)
  IN IF rest = <<>>
     THEN [f EXCEPT !.pc = "done", !.todo = <<>>, !.result = r.result,
                    !.inflight = 0, !.threw = Append(@, r.threw)]
     ELSE [f EXCEPT !.todo = rest, !.result = r.result, !.sent = Append(@, Head(rest)),
                    !.inflight = 1, !.threw = Append(@, r.threw)]

CallPrices(n) ==
  /\ priceCall.pc = "idle"
  /\ priceCall' = startFetch(SymbolList(n), apiKey)
  /\ UNCHANGED <<now, storage, apiKey, ticks, browseVars, stockVars, metricsCall, jsonCall>>

BatchSettle(o) ==
  /\ priceCall.pc = "await"
  /\ priceCall' = settleFetch(priceCall, o)
  /\ UNCHANGED <<now, storage, apiKey, ticks, browseVars, stockVars, metricsCall, jsonCall>>

\* The requests fetchValuationMetrics sends (lines 154-163).
metricsRequests(key) == IF key THEN METRICS_REQUESTS ELSE <<>>
\* statistics bodies with shares_outstanding absent, zero, negative, no number, a
\* number in a string.
SharesValues ==
  {Null, Num(0), Num(0 - Units(100)), Str(<<"N", "/", "A">>), Str(<<"-", "5">>), Str(<<>>),
   Str(<<"1", ",", "0", "0", "0">>), Num(Units(100))}
FetchResponses ==
  Responses \cup {[r EXCEPT !.stats.shares_outstanding = v] :
                    r \in {x \in Responses : x.stats.statistics}, v \in SharesValues}

CallMetrics(r, currency) ==
  /\ priceCall.pc # "await" /\ metricsCall = None
  /\ metricsCall' = Some([key |-> apiKey, r |-> r, currency |-> currency,
                 requests |-> metricsRequests(apiKey),
                 res |-> fetchValuationMetrics(apiKey, r, currency)])
  /\ UNCHANGED <<now, storage, apiKey, ticks, browseVars, stockVars, priceCall, jsonCall>>


(* ---------------------- extractJSON, called on its own ---------------- *)
\* The texts extractJSON is given: what comes before, a body, what comes after.
ReplyPrefixes ==
  {<<>>, <<"Sure">>, <<"Sure", "FENCE", "json", "NL">>, <<"FENCE", "NL">>,
   <<"FENCE", "NL", "junk", "FENCE">>, <<"{">>}
ReplyBodies ==
  {<<"{", "fv:26.25", ",", "rationale:ok", "}">>,
   <<"{", "fv:26.25", ",", "meta:", "{", "}", "}">>,
   <<"{", "meta:", "{", "fv:quoted", "}", ",", "fv:26.25", "}">>,
   <<"{", "fv:26.25", ",", "rationale:", "QUOTE", "see", "{", "x", "}", "QUOTE", "}">>,
   <<"{", "fv:26.25", ",", "rationale:", "QUOTE", "a", "}", "b", "QUOTE", "}">>,
   <<"{", "fv:26.25", ",", "rationale:", "QUOTE", "a", "{", "b", "QUOTE", "}">>,
   <<"{", "fv:quoted", "}">>,
   <<"{", "}">>,
   <<"{", "fv:26.25", ",", "}">>,
   <<"42">>,
   <<"junk">>,
   <<>>}
ReplySuffixes ==
  {<<>>, <<"done">>, <<"NL", "FENCE">>, <<"NL", "FENCE", "done">>, <<"}">>}
Replies == {p \o b \o s : p \in ReplyPrefixes, b \in ReplyBodies, s \in ReplySuffixes}

CallExtract(text) ==
  /\ jsonCall = None
  /\ jsonCall' = Some([text |-> text, j |-> extractJSON(text)])
  /\ UNCHANGED <<now, storage, apiKey, ticks, browseVars, stockVars, priceCall, metricsCall>>

\* The state after App has mounted, with st in localStorage.
Start(st) ==
  /\ now = 0 /\ ticks = 0 /\ storage = st
  /\ apiKey \in BOOLEAN
  /\ mounted = TRUE /\ market = "SA" /\ effectPending = TRUE
  /\ grouped = <<>> /\ loading = TRUE /\ error = ""
  /\ loads = EmptyMap
  /\ evLoad = NoLoadEvent
  /\ view = None /\ calls = EmptyMap
  /\ replaced = [s \in Symbols |-> None]
  /\ evCall = NoCallEvent
  /\ engine = None /\ asks = EmptyMap /\ estimated = EmptyMap
  /\ created = (IF hasWebGPU THEN 1 ELSE 0)
  /\ startup = (IF hasWebGPU THEN Some(1) ELSE None)
  /\ evAI = NoAIEvent
  /\ priceCall = idleFetch /\ metricsCall = None /\ jsonCall = None
Init == Start(EmptyMap)

\* localStorage outlives the page: the price record of the first market may be there
\* from an earlier visit, also in a form this code did not write: text that is no
\* JSON, null, a record without prices, a record holding a price that is no number.
StoredPriceRecords ==
  {[parses |-> FALSE, value |-> [at |-> 0, prices |-> EmptyMap, shape |-> "text"]],
   JSONstringify([at |-> 0, prices |-> EmptyMap, shape |-> "null"]),
   JSONstringify([at |-> 0, prices |-> EmptyMap, shape |-> "noPrices"]),
   JSONstringify([at |-> 0, prices |-> [s \in ToSet(priceSymbols("SA")) |->
                                         IF s = priceSymbols("SA")[1] THEN Null
                                         ELSE Num(Units(10))]])}
InitBrowse ==
  \E st \in {EmptyMap} \cup {Put(EmptyMap, PRICE_CACHE_KEY("SA"), r) : r \in StoredPriceRecords} :
     Start(st)

CatalogErrors == {"Failed to fetch", "JSON not found"}
\* The batch outcomes a load is run against: the request fails, or its body prices
\* every symbol, is another JSON value, or is an array whose second entry is null.
LoadOutcomes(c) ==
  {o \in BatchOutcomes(c) :
     /\ Len(o.body.items) \in {0, Len(c), Len(c) + 1}
     /\ \A i \in 1..Len(o.body.items) : o.body.items[i].isNull \/ o.body.items[i].price = Quote}
NextBrowse ==
  \/ RunEffect
  \/ \E m \in MARKET : SetMarket(m)
  \/ Unmount
  \/ Mount
  \/ \E l \in DOMAIN loads, msg \in CatalogErrors : CatalogFail(l, msg)
  \/ \E l \in DOMAIN loads, a \in BOOLEAN : CatalogOk(l, a)
  \/ \E l \in {x \in DOMAIN loads : x.pc = "prices"} :
        \E o \in LoadOutcomes(Head(l.todo)), a \in BOOLEAN : PriceRespond(l, o, a)
  \/ \E d \in TickSteps : Tick(d)

SpecBrowse == InitBrowse /\ [][NextBrowse]_vars

\* The responses a call of the detail view is settled with: JSON bodies that hold the
\* statistics, or a failure: the first request rejects, the body of the third is no
\* JSON, or all four reject.
SettleKinds ==
  {[i \in 1..4 |-> IF i = 1 THEN "reject" ELSE "json"],
   [i \in 1..4 |-> IF i = 3 THEN "badjson" ELSE "json"],
   [i \in 1..4 |-> "reject"]}
MetricsResponses ==
  {r \in Responses : IF r.kinds = AllJson THEN r.stats.statistics ELSE r.kinds \in SettleKinds}
NextMetrics ==
  \/ \E c \in StockChoices, a \in BOOLEAN : OpenStock(c.ticker, c.market, a)
  \/ BackHome
  \/ \E c \in DOMAIN calls, r \in MetricsResponses, a \in BOOLEAN : MetricsSettle(c, r, a)
  \/ \E d \in TickSteps : TickMetrics(d)

SpecMetrics == Init /\ [][NextMetrics]_vars

\* askAI is followed on one stock.
AIChoices == {c \in StockChoices : c.market = "US"}
\* The model outcomes askAI is settled with: the failure, and one reply for each value
\* extractJSON reads (a fenced or a wrapped reply reads as the bare object does).
SettleOutcomes ==
  {o \in ModelOutcomes :
     o.ok => o.content = CHOOSE c \in ModelContents : extractJSONOf[c] = extractJSONOf[o.content]}
NextAI ==
  \/ \E c \in AIChoices, r \in AIResponses : ShowStock(c.ticker, c.market, r)
  \/ BackHome
  \/ AskAI
  \/ \E a \in DOMAIN asks, ok \in BOOLEAN : EngineSettle(a, ok)
  \/ \E ok \in BOOLEAN : StartupSettle(ok)
  \/ \E a \in DOMAIN asks, o \in SettleOutcomes, acc \in BOOLEAN : ModelSettle(a, o, acc)
  \/ \E d \in TickSteps : TickAI(d)

SpecAI == Init /\ [][NextAI]_vars

\* askAI followed for its busy flag, on one stock with one set of responses.  An
\* awaited construction and an awaited model call each resolve or reject: the
\* continuation of an askAI that waits for one of them is eventually run.
BusyResponses == {CHOOSE r \in AIResponses : TRUE}
Settles ==
  \E a \in DOMAIN asks :
     \/ \E ok \in BOOLEAN : EngineSettle(a, ok)
     \/ \E o \in ModelOutcomes, acc \in BOOLEAN : ModelSettle(a, o, acc)
NextAILive ==
  \/ \E c \in AIChoices, r \in BusyResponses : ShowStock(c.ticker, c.market, r)
  \/ BackHome
  \/ AskAI
  \/ \E a \in DOMAIN asks, ok \in BOOLEAN : EngineSettle(a, ok)
  \/ \E ok \in BOOLEAN : StartupSettle(ok)
  \/ \E a \in DOMAIN asks, o \in ModelOutcomes, acc \in BOOLEAN : ModelSettle(a, o, acc)
  \/ \E d \in TickSteps : TickAI(d)

SpecAILive == Init /\ [][NextAILive]_vars /\ WF_vars(Settles)

NextFetch ==
  \/ \E n \in SymbolCounts : CallPrices(n)
  \/ (priceCall.pc = "await" /\ \E o \in BatchOutcomes(Head(priceCall.todo)) : BatchSettle(o))
  \/ \E r \in FetchResponses, m \in MARKET : CallMetrics(r, MARKET_CCY(m))

SpecFetch == Init /\ [][NextFetch]_vars

NextParse == \E text \in Replies : CallExtract(text)

SpecParse == Init /\ [][NextParse]_vars

(* ============================ the claims ============================== *)
TenMinutes == 10 * 60 * 1000
LoadEnds == {"catalogFail", "cacheThrew", "cached", "skipped", "fetched"}
LoadSteps == LoadEnds \cup {"fetching", "batch"}
\* The cache record the load's step read: found at the catalog step, and its age then.
FoundFresh == evLoad.found # None /\ now - evLoad.found[1].at < TenMinutes
FoundStale == evLoad.found = None \/ now - evLoad.found[1].at >= TenMinutes

\* C2: a load whose stop flag is set (the market was switched, or the browser left,
\* while it was in flight) changes none of grouped, error and loading when it
\* completes or fails; at most one load is not stopped, once the switch's effect has
\* run it is the load of the selected market, and only its completion sets grouped,
\* sets an error or clears loading.
C2_StaleLoadIgnored ==
  /\ [](\A l \in DOMAIN loads :
          (~l.stop) => (/\ loads[l] = 1
                        /\ mounted /\ (effectPending \/ l.market = market)
                        /\ \A k \in DOMAIN loads : (~k.stop) => k = l))
  /\ [][((evLoad'.op \in LoadSteps /\ evLoad'.stop)
            => (grouped' = grouped /\ error' = error /\ loading' = loading))
        /\ ((mounted' /\ (grouped' # grouped \/ (error' # error /\ error' # "")
                          \/ (loading /\ ~loading')))
            => (evLoad'.op \in LoadEnds /\ ~evLoad'.stop /\ evLoad'.market = market'))
       ]_vars
\* A stale load of the other market has just completed with a catalog while the load
\* of the selected market is still in flight.
C2_Witness ==
  /\ evLoad.op \in {"cached", "fetched"} /\ evLoad.stop /\ evLoad.market # market
  /\ mounted /\ loading /\ \E l \in DOMAIN loads : ~l.stop

C4_MissFetchesAndOverwrites ==
  /\ (evLoad.op \in {"cached", "fetching", "skipped"} /\ FoundStale)
       => (evLoad.called /\ evLoad.arg = priceSymbols(evLoad.market))
  /\ (evLoad.op \in {"skipped", "fetched"})
       => LET key == PRICE_CACHE_KEY(evLoad.market)
          IN /\ evLoad.called /\ evLoad.arg = priceSymbols(evLoad.market)
             /\ (evLoad.accepted =>
                  (key \in DOMAIN storage /\ storage[key].parses
                   /\ storage[key].value = [at |-> now, prices |-> evLoad.prices]))
             /\ (~evLoad.accepted =>
                  IF evLoad.found = None
                  THEN key \notin DOMAIN storage \/ ~storage[key].parses
                  ELSE key \in DOMAIN storage /\ storage[key].value = evLoad.found[1])
\* A fetch that priced fewer symbols than the record it replaces.
C4_Witness ==
  /\ evLoad.op = "fetched" /\ evLoad.accepted /\ evLoad.found # None
  /\ \E s \in DOMAIN evLoad.found[1].prices : s \notin DOMAIN evLoad.prices
  /\ storage[PRICE_CACHE_KEY(evLoad.market)].value.prices = evLoad.prices

\* The loads that are inside fetchTwelvePrices.
PriceLoads == [l \in {x \in DOMAIN loads : x.pc = "prices"} |-> loads[l]]

\* C12: a load whose catalog request fails (the fetch rejects, the status is not
\* ok, the body is not JSON) shows its error and ends loading, unless it was stopped;
\* the step leaves the catalog shown and localStorage as they were and sends the load
\* into no price fetch.
C12_CatalogFailure ==
  /\ []((evLoad.op = "catalogFail" /\ ~evLoad.stop) =>
          /\ error \in CatalogErrors /\ ~loading
          /\ \A l \in DOMAIN loads : l.stop)
  /\ [][evLoad'.op = "catalogFail" =>
          /\ grouped' = grouped /\ storage' = storage /\ PriceLoads' = PriceLoads
          /\ BagSize(loads') = BagSize(loads) - 1]_vars
\* the US catalog fails to load while the catalog of SA, loaded before, is held
C12_Witness ==
  /\ evLoad.op = "catalogFail" /\ ~evLoad.stop /\ evLoad.market = "US"
  /\ error \in CatalogErrors /\ grouped = mergeCatalog("SA", EmptyMap)

\* The companies of a market's resource that the catalog shows, industry by industry.
Listed(mkt) ==
  LET raw == MARKET_JSON(mkt)
  IN dropEmpty([i \in 1..Len(raw) |-> <<raw[i][1], [j \in 1..Len(raw[i][2]) |-> raw[i][2][j].Ticker]>>])
Tickers(g) == [i \in 1..Len(g) |-> <<g[i][1], [j \in 1..Len(g[i][2]) |-> g[i][2][j].ticker]>>]
\* The prices a finished load has in hand: the cached ones, or the fetched ones.
Known == IF evLoad.op \in {"cached", "fetched"} THEN evLoad.prices ELSE EmptyMap
PriceEnds == {"cacheThrew", "cached", "skipped", "fetched"}

\* C13: a load whose catalog arrived ends without an error whatever happens while
\* the prices are obtained (a batch request fails or answers with no JSON or with a
\* null entry, the cache record is no JSON, is null or lacks its prices): it shows
\* every company of the market's resource, and an entry shows a price only if that
\* price is known and finite, and is absent otherwise.
C13_PriceFailuresDegrade ==
  (evLoad.op \in PriceEnds /\ ~evLoad.stop) =>
     /\ error = "" /\ ~loading
     /\ Tickers(grouped) = Listed(evLoad.market)
     /\ \A i \in 1..Len(grouped) : \A j \in 1..Len(grouped[i][2]) :
          LET e == grouped[i][2][j]
              sym == Qualified(e.ticker, MARKET_SUFFIX(evLoad.market))
          IN IF e.price # None
             THEN sym \in DOMAIN Known /\ Known[sym] = Num(e.price[1])
             ELSE sym \notin DOMAIN Known \/ ~isFiniteNumber(Known[sym]) \/ ~evLoad.accepted
\* the only batch request of the load failed: the catalog is shown without prices
C13_Witness ==
  /\ evLoad.op = "fetched" /\ evLoad.threw /\ ~evLoad.stop /\ evLoad.prices = EmptyMap
  /\ error = "" /\ ~loading /\ Len(grouped) > 0
  /\ \A i \in 1..Len(grouped) : \A j \in 1..Len(grouped[i][2]) : grouped[i][2][j].price = None

\* C14: a cache write that localStorage refuses is dropped without a trace: the
\* load shows the prices it has just fetched, the metrics call hands over the
\* metrics it has just fetched, and askAI shows the estimate it has just parsed with
\* no error, all as if the write had been stored.
C14_WriteFailureSilent ==
  /\ (evLoad.op = "fetched" /\ ~evLoad.stop)
       => (error = "" /\ grouped = mergeCatalog(evLoad.market, evLoad.prices))
  /\ (evCall.op \in {"fetched", "storeFailed", "degraded"} /\ evCall.live)
       => (view[1].err = "" /\ view[1].m # None)
  /\ (evAI.op \in {"answered", "writeFailed"} /\ evAI.live)
       => (view[1].aiError = "" /\ view[1].aiFV # None)

\* The prices a finished load merges (the variable prices at line 131): the cached
\* ones, the fetched ones once their snapshot is written, else none.
Merged ==
  IF evLoad.op = "cached" \/ (evLoad.op = "fetched" /\ evLoad.accepted) THEN evLoad.prices
  ELSE EmptyMap

Rows(g) == [i \in 1..Len(g) |-> <<g[i][1], [j \in 1..Len(g[i][2]) |-> g[i][2][j].ticker]>>]
\* C22: in the browse view, whenever loading is false and error is empty, the
\* catalog displayed is the catalog of the selected market, never that of the market
\* selected before; this includes the states between a switch of the market and the
\* start of the new market's load.
C22_ShownCatalogOfMarket ==
  (mounted /\ ~loading /\ error = "") => Rows(grouped) = Rows(mergeCatalog(market, EmptyMap))


ThirtyMinutes == 30 * 60 * 1000
CallStarts == {"hit", "degraded", "started"}
CallSettles == {"fetched", "storeFailed", "failed"}
\* weighted is in quarters of the unit of the fair values.
WeightedHolds(d) == d.weighted = 2 * d.fairEV + d.fairPE + d.fairPS

C7_AnyFailureFailsAll ==
  (apiKey /\ evCall.op \in CallSettles) =>
     /\ ((\E i \in 1..4 : evCall.kinds[i] # "json") =>
           (/\ evCall.op = "failed" /\ evCall.data = None
            /\ (evCall.live => (/\ view # None /\ view[1].m = None
                                /\ view[1].err # "" /\ ~view[1].loading))))
     /\ (evCall.data # None => (\A i \in 1..4 : evCall.kinds[i] = "json"))
\* only the balance sheet's body was not JSON, and the view shows the failure
C7_Witness ==
  /\ apiKey /\ evCall.op = "failed" /\ evCall.live
  /\ evCall.kinds = [i \in 1..4 |-> IF i = 3 THEN "badjson" ELSE "json"]
  /\ view[1].err = "Unexpected token"

C23_OtherEntriesKept ==
  [][\A s \in Symbols : s # evCall'.sym => entryOf(s)' = entryOf(s)]_vars
\* a fetch of one symbol was stored while the other symbol has an entry from before
\* and a call of its own still in flight
C23_Witness ==
  /\ evCall.op = "fetched" /\ evCall.stored
  /\ \E s \in Symbols :
       /\ s # evCall.sym /\ entryOf(s) # None /\ entryOf(s)[1].at < now
       /\ \E c \in DOMAIN calls : c.sym = s

\* After a failed call of a symbol, the next step is a call of the same symbol.
CallAfterFailure ==
  evCall.op = "failed" /\ evCall'.op \in CallStarts /\ evCall'.sym = evCall.sym
\* C24 as stated: a call that fails because the fetch failed leaves the metrics cache
\* as it was, and the next call of the symbol sends the requests again.
C24_Original ==
  /\ [][evCall'.op = "failed" => storage' = storage]_vars
  /\ [][CallAfterFailure => (evCall'.op = "started" /\ evCall'.requests = 4)]_vars
\* C24, amended: a call that fails because the fetch failed leaves the metrics cache
\* as it was, no entry created or refreshed for the symbol; the next call of the
\* symbol sends the four requests again, unless the cache holds an entry of the
\* symbol younger than 30 minutes, stored by another call that succeeded, which is
\* then served.
C24_FailureNotCached ==
  /\ [][evCall'.op = "failed" =>
          (/\ storage' = storage
           /\ \A s \in Symbols : s = evCall'.sym => evCall'.found = entryOf(s)')]_vars
  /\ [][CallAfterFailure =>
          IF evCall.found # None /\ now - evCall.found[1].at < ThirtyMinutes
          THEN /\ evCall'.op = "hit" /\ evCall'.requests = 0
               /\ evCall'.data = Some(evCall.found[1].data)
          ELSE evCall'.op = "started" /\ evCall'.requests = 4]_vars
\* a call has failed on a rejected request, its view left, and the cache holds no
\* entry of its symbol
C24_Witness ==
  /\ apiKey /\ evCall.op = "failed" /\ ~evCall.live
  /\ \E i \in 1..4 : evCall.kinds[i] = "reject"
  /\ entryOf(evCall.sym) = None /\ view = None


TwentyFourHours == 24 * 60 * 60 * 1000
Clicks == {"cached", "asked"}
\* The five inputs of the signature, and a number of thousandths in hundredths.
Inputs(m) == <<m.fairEV, m.fairPE, m.fairPS, m.bookValue, m.price>>
ToCents(n) == IF n >= 0 THEN (n + 5) \div 10 ELSE 0 - ((5 - n) \div 10)
SameToCents(m1, m2) == \A i \in 1..5 : ToCents(Inputs(m1)[i]) = ToCents(Inputs(m2)[i])
\* The metrics the detail view can show when askAI is followed.
AIMetrics ==
  {fetchValuationMetrics(TRUE, r, MARKET_CCY(c.market)).data[1] :
     r \in AIResponses, c \in AIChoices}
ModelAsks == {a \in DOMAIN asks : a.pc = "model"}

\* C5: at most one model invocation is in flight at any time: an Ask AI while an
\* earlier invocation is pending starts no second call of the model.
C5_SingleFlight ==
  BagSize([a \in ModelAsks |-> asks[a]]) <= 1

\* C6: CreateMLCEngine is invoked at most once per process, and every askAI calls
\* the model on that one engine.
C6_SingleConstruction ==
  /\ created <= 1
  /\ \A a \in ModelAsks : a.eng = 1

\* C9 as stated: an estimate served from the cache was cached for metrics with the
\* very same fairEV, fairPE, fairPS, bookValue and price as the metrics shown; for
\* metrics that differ in one of them by any amount it is never served.
C9_Original ==
  evAI.op = "cached" => Inputs(estimated[evAI.key]) = Inputs(view[1].m[1])

\* C9, amended: two ValuationMetrics of a symbol have the same AI cache key exactly
\* when their fairEV, fairPE, fairPS, bookValue and price agree after rounding to 2
\* decimals.  An estimate served from the cache was cached for metrics that agree
\* with the shown ones after that rounding (they may differ below it), and an Ask AI
\* that finds nothing under the shown metrics' key starts an invocation, whatever is
\* cached under other keys.
C9_KeyOfRoundedInputs ==
  /\ \A m1 \in AIMetrics, m2 \in AIMetrics, c \in AIChoices :
       LET sym == Qualified(c.ticker, MARKET_SUFFIX(c.market))
       IN (AI_CACHE_KEY(sym, aiInputsSig(m1)) = AI_CACHE_KEY(sym, aiInputsSig(m2)))
            <=> SameToCents(m1, m2)
  /\ (evAI.op = "cached" => SameToCents(estimated[evAI.key], view[1].m[1]))
  /\ ((evAI.op \in Clicks /\ evAI.found = None) => evAI.op = "asked")
\* an estimate is cached and fresh for fairEV 9.00, the view shows 9.01: Ask AI
\* starts an invocation
C9_Witness ==
  /\ evAI.op = "asked" /\ view[1].m[1].fairEV = 9011
  /\ \E k \in DOMAIN estimated :
       /\ k # evAI.key /\ ToCents(estimated[k].fairEV) = 900
       /\ aiFresh(cacheReadOrNull(k), now)

\* C10: an Ask AI that finds under its key a cached estimate (a record whose fv is
\* a finite number) younger than 24 hours shows that record's fv and rationale,
\* marked cached, and neither constructs the engine nor calls the model; one that
\* finds a record aged 24 hours or more (or none, or one whose fv is not a finite
\* number) shows no cached value and starts an invocation: the model is called at
\* once when the engine exists, otherwise the engine is constructed first.
C10_FreshEstimateServed ==
  evAI.op \in Clicks =>
     IF /\ evAI.found # None /\ now - evAI.found[1].at < TwentyFourHours
        /\ evAI.found[1].fv.t = "number"
     THEN /\ evAI.op = "cached" /\ ~evAI.constructed /\ ~evAI.invoked
          /\ view[1].aiFV = Some(evAI.found[1].fv)
          /\ view[1].aiRationale = evAI.found[1].rationale
          /\ view[1].aiCached /\ ~view[1].aiBusy
          /\ \A a \in DOMAIN asks : ~a.live
     ELSE /\ evAI.op = "asked" /\ (evAI.constructed \/ evAI.invoked)
          /\ view[1].aiFV = None /\ ~view[1].aiCached /\ view[1].aiBusy
          /\ \E a \in DOMAIN asks : a.live /\ keyOf(a) = evAI.key
\* an estimate cached 24 hours ago is not served
C10_Witness ==
  /\ evAI.op = "asked" /\ evAI.found # None
  /\ now - evAI.found[1].at = TwentyFourHours /\ evAI.found[1].fv = Num(26250)

\* C11: an askAI whose reply extractJSON cannot parse, or whose parsed value has no
\* numeric fv, ends with the generic error shown, no AI fair value (aiFV still null)
\* and the busy flag cleared, and the step writes nothing: localStorage, and with it
\* the entry under the invocation's key, is as it was.
C11_UnparsableReplyFails ==
  /\ []((evAI.op = "unparsable" /\ evAI.live) =>
          /\ view # None /\ view[1].aiError = AI_ERROR
          /\ view[1].aiFV = None /\ ~view[1].aiCached /\ ~view[1].aiBusy)
  /\ [][evAI'.op = "unparsable" => storage' = storage]_vars
\* a reply without a numeric fv, while the key holds an entry the cache does not serve
C11_Witness ==
  /\ evAI.op = "unparsable" /\ evAI.live
  /\ evAI.key \in DOMAIN storage /\ view[1].aiError = AI_ERROR

\* C19: when an askAI has shown the model's estimate without an error, the record
\* {at: now, fv, rationale} of that estimate is under the key of (model, symbol,
\* signature); and an Ask AI that finds, under the key of the shown metrics, the
\* record of such an estimate younger than 24 hours shows its fv and rationale,
\* marked cached, and does not invoke the model.
C19_SuccessIsCached ==
  /\ evAI.op = "answered" =>
       /\ evAI.key \in DOMAIN storage /\ storage[evAI.key].parses
       /\ storage[evAI.key].value.at = now
       /\ evAI.live => /\ view[1].aiError = ""
                       /\ view[1].aiFV = Some(storage[evAI.key].value.fv)
                       /\ view[1].aiRationale = storage[evAI.key].value.rationale
  /\ (/\ evAI.op \in Clicks /\ evAI.key \in DOMAIN estimated
      /\ evAI.found # None /\ now - evAI.found[1].at < TwentyFourHours)
       => /\ evAI.op = "cached" /\ ~evAI.invoked /\ ~evAI.constructed
          /\ view[1].aiFV = Some(evAI.found[1].fv)
          /\ view[1].aiRationale = evAI.found[1].rationale /\ view[1].aiCached

\* The mounted detail view has its busy flag set.
Busy == view # None /\ view[1].aiBusy
\* C25: every askAI that sets the busy flag eventually clears it, provided the
\* construction of the engine and the call of the model each complete or fail:
\* whether the call succeeds, returns an unparsable reply or throws, aiBusy is false
\* again and Ask AI can be triggered again.
C25_BusyEventuallyCleared == Busy ~> ~Busy
\* the call of the model has thrown under a view that is still mounted, and its
\* busy flag is false again
C25_Witness ==
  /\ evAI.op = "modelFailed" /\ evAI.live
  /\ view # None /\ ~view[1].aiBusy /\ view[1].aiError = AI_ERROR


NumericFields ==
  {"price", "fairEV", "fairPE", "fairPS", "weighted", "bookValue", "grossMargin",
   "netMargin", "opMargin"}

\* C15: without a credential neither fetcher sends a request: fetchTwelvePrices
\* returns the empty mapping at once, fetchValuationMetrics returns (it does not
\* throw) the metrics whose numeric fields are all 0 and whose currency is the one
\* it was called with, whatever the API would have answered.
C15_NoCredentialNoRequest ==
  ~apiKey =>
     /\ priceCall.pc # "await" /\ priceCall.sent = <<>> /\ priceCall.inflight = 0
     /\ priceCall.result = EmptyMap /\ priceCall.threw = <<>>
     /\ (metricsCall # None =>
           /\ metricsCall[1].requests = <<>>
           /\ metricsCall[1].res.ok
           /\ metricsCall[1].res.data[1].currency = metricsCall[1].currency
           /\ \A f \in NumericFields : metricsCall[1].res.data[1][f] = 0)
\* both fetchers were called without a credential, the first with 161 symbols
C15_Witness ==
  /\ ~apiKey /\ priceCall.pc = "done" /\ priceCall.n = MaxSymbols
  /\ metricsCall # None /\ metricsCall[1].currency = "SAR"
  /\ metricsCall[1].r.kinds = AllJson /\ metricsCall[1].res.data[1].currency = "SAR"

\* C16: in the metrics fetchValuationMetrics derives from its four responses, when
\* the coerced sharesOutstanding is <= 0 (absent, null, zero, negative, or a string
\* that is no number) fairEV, fairPE, fairPS and weighted are all 0 whatever the
\* other inputs are; when it is > 0, fairEV = (enterpriseValue - longTermDebt + cash)
\* / sharesOutstanding, fairPE = forwardPE * netIncome / sharesOutstanding and
\* fairPS = priceToSales * sales / sharesOutstanding.
C16_NoSharesNoMultiples ==
  (metricsCall # None /\ metricsCall[1].key /\ metricsCall[1].res.ok) =>
     LET r == metricsCall[1].r
         d == metricsCall[1].res.data[1]
         stat(x) == IF r.stats.statistics THEN x ELSE Null
         first(isArray, x) == IF isArray THEN x ELSE Null
         sharesOutstanding == asNum(stat(r.stats.shares_outstanding))
         total == asNum(stat(r.stats.enterprise_value))
                    - asNum(first(r.bs.isArray, r.bs.long_term_debt))
                    + asNum(first(r.bs.isArray, r.bs.cash))
         earnings == Mul(asNum(stat(r.stats.forward_pe)), asNum(first(r.is.isArray, r.is.net_income)))
         revenue == Mul(asNum(stat(r.stats.price_to_sales_ttm)), asNum(first(r.is.isArray, r.is.sales)))
     IN IF sharesOutstanding <= 0
        THEN d.fairEV = 0 /\ d.fairPE = 0 /\ d.fairPS = 0 /\ d.weighted = 0
        ELSE /\ d.fairEV = Div(total, sharesOutstanding)
             /\ d.fairPE = Div(earnings, sharesOutstanding)
             /\ d.fairPS = Div(revenue, sharesOutstanding)
\* shares_outstanding is a negative number while the enterprise value is not 0
C16_Witness ==
  /\ metricsCall # None /\ metricsCall[1].key /\ metricsCall[1].res.ok
  /\ metricsCall[1].r.stats.statistics
  /\ asNum(metricsCall[1].r.stats.shares_outstanding) < 0
  /\ asNum(metricsCall[1].r.stats.enterprise_value) > 0
  /\ metricsCall[1].res.data[1].fairEV = 0 /\ metricsCall[1].res.data[1].weighted = 0

\* What a call of fetchTwelvePrices has requested so far, batch after batch: every
\* batch has at most 80 symbols, the batches together are the first symbols of the
\* input in input order, at most one request is in flight, and a batch is requested
\* only when every batch before it has settled.
SentInOrder ==
  LET all == Flatten(priceCall.sent)
  IN /\ \A k \in 1..Len(priceCall.sent) :
          Len(priceCall.sent[k]) >= 1 /\ Len(priceCall.sent[k]) <= 80
     /\ Len(all) <= priceCall.n /\ all = SubSeq(SymbolList(priceCall.n), 1, Len(all))
     /\ priceCall.inflight \in {0, 1}
     /\ Len(priceCall.sent) = Len(priceCall.threw) + priceCall.inflight
Ceil80(n) == (n + 79) \div 80

\* C17 as stated: fetchTwelvePrices on n symbols issues exactly ceil(n/80) requests,
\* in order and one after another.
C17_Original ==
  /\ SentInOrder
  /\ priceCall.pc = "done" =>
       (Len(priceCall.sent) = Ceil80(priceCall.n)
        /\ Flatten(priceCall.sent) = SymbolList(priceCall.n))
\* C17, amended: with a credential configured, fetchTwelvePrices on n symbols issues
\* exactly ceil(n/80) requests, each carrying at most 80 symbols and together
\* carrying every input symbol exactly once in input order, one after another: a
\* batch is requested only after the request of the batch before it has completed or
\* failed.  Without a credential it issues no request at all.
C17_BatchesInSequence ==
  /\ SentInOrder
  /\ (priceCall.pc = "done" /\ apiKey) =>
       (Len(priceCall.sent) = Ceil80(priceCall.n)
        /\ Flatten(priceCall.sent) = SymbolList(priceCall.n))
  /\ (priceCall.pc # "idle" /\ ~apiKey) => (priceCall.pc = "done" /\ priceCall.sent = <<>>)
\* more than 160 symbols went out in three requests, the first of which failed
C17_Witness ==
  /\ apiKey /\ priceCall.pc = "done" /\ priceCall.n = MaxSymbols
  /\ Len(priceCall.sent) = 3 /\ Len(priceCall.sent[3]) <= 2
  /\ priceCall.threw[1] /\ ~priceCall.threw[3]

\* C18: a batch whose try block threw (the request failed, the body was no JSON, an
\* entry could not be read) has put no price of its symbols into the result, also
\* none of the entries read before the throw; no batch is requested twice and every
\* batch is requested; the result holds finite prices only.
C18_FailedBatchAddsNothing ==
  /\ \A k \in 1..Len(priceCall.threw) :
       priceCall.threw[k] =>
          \A i \in 1..Len(priceCall.sent[k]) : priceCall.sent[k][i] \notin DOMAIN priceCall.result
  /\ Len(priceCall.sent) <= Ceil80(priceCall.n)
  /\ (priceCall.pc = "done" /\ apiKey) => Len(priceCall.sent) = Ceil80(priceCall.n)
  /\ \A s \in DOMAIN priceCall.result : isFiniteNumber(priceCall.result[s])

(* ------------------------------ extractJSON --------------------------- *)
firstIndexOf(raw, tok) ==
  LET at == {k \in 1..Len(raw) : raw[k] = tok}
  IN IF at = {} THEN 0 ELSE CHOOSE k \in at : \A x \in at : k <= x
\* The three strategies in the stated order: the whole response, the contents of the
\* fenced block, the substring from the first { to the last } of the raw text.
wholeResponse(text) == JSONparse(text)
fencedBlock(text) == IF fenceBody(text) # None THEN JSONparse(fenceBody(text)[1]) ELSE None
firstToLastBrace(text) ==
  LET i == firstIndexOf(text, "{")
      j == lastIndexOf(text, "}")
  IN IF i >= 1 /\ j > i THEN JSONparse(SubSeq(text, i, j)) ELSE None
inStatedOrder(text) ==
  IF wholeResponse(text) # None THEN wholeResponse(text)
  ELSE IF fencedBlock(text) # None THEN fencedBlock(text)
  ELSE firstToLastBrace(text)

\* C21: extractJSON returns what the first successful of three strategies gives, in
\* this order: parse the whole response, parse the contents of the fenced code
\* block, parse the substring from the first { to the last } of the raw text; so a
\* response of noise, one JSON object (also one holding a nested object or braces
\* inside a string) and trailing text parses to that object, and the result is a
\* failure only when all three strategies fail.
C21_ThreeStrategies ==
  jsonCall # None => jsonCall[1].j = inStatedOrder(jsonCall[1].text)

====
